---- MODULE Spec2Model ----
(***************************************************************************)
(* Model of the n8n-nodes-gravity adapters.                                *)
(*                                                                         *)
(*   SpecStream  : one execution of GravityClaude / GravityOpenAI          *)
(*                 (BedrockService.sendClaudeRequest,                      *)
(*                 OpenAIService.sendOpenAIRequest and the execute         *)
(*                 methods that collect the stream output).                *)
(*   SpecPublish : one execution of GravityOutput / GravityUpdate (the     *)
(*                 per-item loop that builds an envelope and hands it to   *)
(*                 Publisher.publishEvent).                                *)
(***************************************************************************)
EXTENDS Naturals, Integers, Sequences, FiniteSets, TLC

\* ---------------------------------------------------------------- bounds
MaxFragments == 3
MaxItems == 2
MaxClock == 1
MaxInterleaved == 2
MaxEnvelopes == 2

\* ------------------------------------------------------- JavaScript glue
\* The value `undefined` (an absent property or argument).
Undefined == "<undefined>"

\* JavaScript truthiness of a string-or-undefined value, as used by `||`,
\* `if (x)` and `!x`.
Truthy(v) == v # Undefined /\ v # ""

\* a || b
OrElse(a, b) == IF Truthy(a) THEN a ELSE b

\* ------------------------------------------------------------- ChatState
ChatState_IDLE == "idle"
ChatState_ACTIVE == "active"
ChatState_COMPLETE == "complete"
ChatState_THINKING == "thinking"
ChatState_RESPONDING == "responding"
ChatState_WAITING == "waiting"
ChatState_ERROR == "error"
ChatState_CANCELLED == "cancelled"

\* =====================================================================
\*  Streaming nodes: GravityClaude and GravityOpenAI
\* =====================================================================

StreamNodes == {"claude", "openai"}

\* The `model` parameter the node is run with.
ModelParam(n) == IF n = "claude" THEN "anthropic.claude-3-sonnet:0" ELSE "gpt-4o"

\* Values the "Message State" entry of GravityClaude's Advanced Options
\* collection can hold: absent, "Default (Auto)" or one of the listed states.
ClaudeStateOptions == {Undefined, "", ChatState_THINKING, ChatState_COMPLETE}

\* Values of the "Progress Message" entry of the same collection.
ClaudeProgressOptions == {Undefined, "working"}

\* The text delta carried by one stream event: absent, empty, or a fragment.
EventTexts == {Undefined, "", "Hel", "lo"}

\* Errors the collaborators (credential store, provider client, stream) raise.
\* A thrown value without a message has message = Undefined.
StreamErrors == {[message |-> "stream aborted"], [message |-> ""], [message |-> Undefined]}

\* Marks "the catch block was not entered".
NoError == [message |-> "<no error>"]

VARIABLES
  node,            \* which node type is executing
  spc,             \* position of execute: "start", "request", "streaming", "returned"
  advancedOptions, \* GravityClaude.execute: advancedOptions {state, progressMessage}
  stream,          \* the text deltas of the events the provider delivered so far
  fullResponse,    \* sendXRequest: let fullResponse
  chunkCount,      \* sendXRequest: let chunkCount
  streamOutput,    \* execute: const streamOutput
  outputs,         \* the value execute returned (<<>> before it returns)
  caught,          \* the error the catch block of execute received
  useMcpProvider,  \* GravityClaude: the "Use Gravity MCP provider" parameter
  messages,        \* execute: const messages = processUserMessage(userMessage)
  now              \* the wall clock (Date)

VARIABLES
  workflowId,      \* this.getWorkflow()?.id
  nodeId,          \* this.getNode()?.id
  continueOnFail,  \* the engine's continue-on-fail setting of the node
  nItems,          \* items.length
  itemIndex,       \* the loop variable of execute
  ppc,             \* position of execute: "start", "loop", "publishing", "returned", "thrown"
  cur,             \* the parameters of the item processed last
  message,         \* the message handed to publishEvent and not yet settled (<<>>: none)
  returnData,      \* execute: const returnData
  published,       \* the messages publishEvent accepted, with their item
  calls,           \* the item of every publishEvent call made
  failures,        \* what reached the item's catch block, per failed item
  thrown           \* the error execute threw (NoFailure: none)

VARIABLES
  invocations,     \* concurrent streaming invocations: the locals of each
  instances,       \* two adapter instances: the workflow and node of each
  envelopes        \* what the two instances published into one conversation

streamVars == <<spc, advancedOptions, stream, fullResponse, chunkCount,
                streamOutput, outputs, caught, useMcpProvider, messages>>

publishVars == <<workflowId, nodeId, continueOnFail, nItems, itemIndex, ppc, cur,
                 message, returnData, published, calls, failures, thrown>>

VARIABLES
  tpc,             \* position of trigger: "idle", "credentials", "subscribing", "returned", "thrown"
  channel,         \* trigger: const channel
  subscription,    \* what the bus holds for the node: the channel and its state
  delivered,       \* the events the bus handed to the subscription callback
  emitCalls,       \* every this.emit call made: its data, for which event, accepted or thrown
  closeCalls,      \* how often the engine called closeFunction
  unsubscribeCalls,\* how often the unsubscribe function of the bus was called
  triggerError     \* the error trigger threw (NoError: none)

concVars == <<invocations, instances, envelopes>>

inputVars == <<tpc, channel, subscription, delivered, emitCalls, closeCalls,
               unsubscribeCalls, triggerError>>

vars == <<node, now, streamVars, publishVars, concVars, inputVars>>

\* --- BedrockService -------------------------------------------------

\* BedrockService.formatStreamChunk(model, text, chunkIndex): three
\* parameters; extra call arguments are dropped by the language.
BedrockFormatStreamChunk(model, text, chunkIndex, t) ==
  [model |-> model, text |-> text, chunkIndex |-> chunkIndex, timestamp |-> t,
   state |-> ChatState_RESPONDING, progressMessage |-> Undefined]

\* BedrockService.createCompletionChunk(model, chunkCount)
BedrockCreateCompletionChunk(model, count, t) ==
  [model |-> model, text |-> " ", chunkIndex |-> count, timestamp |-> t,
   state |-> ChatState_COMPLETE, progressMessage |-> Undefined]

\* --- OpenAIService --------------------------------------------------

\* OpenAIService.formatStreamChunk(model, text, chunkIndex, stateOverride?, progressMessage?)
OpenAIFormatStreamChunk(model, text, chunkIndex, stateOverride, progressMessage, t) ==
  [model |-> model, text |-> text, chunkIndex |-> chunkIndex, timestamp |-> t,
   state |-> OrElse(stateOverride, ChatState_RESPONDING),
   progressMessage |-> IF Truthy(progressMessage) THEN progressMessage ELSE Undefined]

\* OpenAIService.createCompletionChunk(model, chunkCount, stateOverride?, progressMessage?)
OpenAICreateCompletionChunkEmptyText(model, count, stateOverride, progressMessage, t) ==
  [model |-> model, text |-> "", chunkIndex |-> count, timestamp |-> t,
   state |-> OrElse(stateOverride, ChatState_COMPLETE),
   progressMessage |-> IF Truthy(progressMessage) THEN progressMessage ELSE Undefined]
OpenAICreateCompletionChunkResponding(model, count, stateOverride, progressMessage, t) ==
  [model |-> model, text |-> " ", chunkIndex |-> count, timestamp |-> t,
   state |-> OrElse(stateOverride, ChatState_RESPONDING),
   progressMessage |-> IF Truthy(progressMessage) THEN progressMessage ELSE Undefined]
OpenAICreateCompletionChunk(model, count, stateOverride, progressMessage, t) ==
  [model |-> model, text |-> " ", chunkIndex |-> count, timestamp |-> t,
   state |-> OrElse(stateOverride, ChatState_COMPLETE),
   progressMessage |-> IF Truthy(progressMessage) THEN progressMessage ELSE Undefined]

\* --- shared shape of both services ----------------------------------

\* if (chunkAny.contentBlockDelta?.delta?.text) / if (content): whether the
\* event of the stream carries a fragment.
HasTextAlways(text) == TRUE
HasText(text) == Truthy(text)

\* fullResponse += text
AccumulatePrepending(full, text) == text \o full
Accumulate(full, text) == full \o text

\* The index sendXRequest hands to onChunk after chunkCount++ .
CallbackIndexOffByOne(count) == count
CallbackIndex(count) == count - 1

\* The onChunk arrow function of execute: the chunk pushed for one fragment.
\* GravityClaude passes advancedOptions.state / progressMessage to
\* BedrockService.formatStreamChunk; GravityOpenAI passes three arguments.
OnChunkIndexedByClock(n, opts, text, chunkIndex, t) ==
  IF n = "claude"
    THEN BedrockFormatStreamChunk(ModelParam(n), text, t, t)
    ELSE OpenAIFormatStreamChunk(ModelParam(n), text, t, Undefined, Undefined, t)
OnChunk(n, opts, text, chunkIndex, t) ==
  IF n = "claude"
    THEN BedrockFormatStreamChunk(ModelParam(n), text, chunkIndex, t)
    ELSE OpenAIFormatStreamChunk(ModelParam(n), text, chunkIndex, Undefined, Undefined, t)

\* The completion chunk execute pushes after sendXRequest resolved.
CompletionChunkShifted(n, opts, count, t) ==
  IF n = "claude"
    THEN BedrockCreateCompletionChunk(ModelParam(n), count + 1, t)
    ELSE OpenAICreateCompletionChunk(ModelParam(n), count + 1, Undefined, Undefined, t)
CompletionChunk(n, opts, count, t) ==
  IF n = "claude"
    THEN BedrockCreateCompletionChunk(ModelParam(n), count, t)
    ELSE OpenAICreateCompletionChunk(ModelParam(n), count, Undefined, Undefined, t)

\* formatErrorResponse(error) (identical in both services)
FormatErrorResponseUnflagged(error, t) ==
  [error |-> FALSE, message |-> OrElse(error.message, "Unknown error"), timestamp |-> t]
FormatErrorResponse(error, t) ==
  [error |-> TRUE, message |-> OrElse(error.message, "Unknown error"), timestamp |-> t]

\* A message of the conversation: BedrockService holds the text in a list of
\* content blocks, OpenAIService holds it as the content itself.
ChatMessage(n, role, text) ==
  IF n = "claude"
    THEN [role |-> role, content |-> <<[text |-> text]>>]
    ELSE [role |-> role, content |-> text]

\* processUserMessage(userMessage): a plain-text message parameter gives a
\* list of one user message, a parameter that is neither a string nor an
\* object gives the 'Hello' default, and OpenAIService returns an array
\* parameter as it is.
InputMessages(n) ==
  {<<ChatMessage(n, "user", "Hi")>>, <<ChatMessage(n, "user", "Hello")>>}
  \cup (IF n = "openai"
          THEN {<<ChatMessage(n, "user", "Hi"), ChatMessage(n, "assistant", "Yes?")>>}
          ELSE {})

\* createFinalResponseObject(model, fullResponse, chunkCount, messages, ...)
\* of the node's service
CreateFinalResponseObjectReplacing(n, model, response, count, msgs, t) ==
  [model |-> model, response |-> response, chunkCount |-> count, messages |-> msgs,
   updatedMessages |-> <<ChatMessage(n, "assistant", response)>>,
   timestamp |-> t, totalCharacters |-> Len(response)]
CreateFinalResponseObject(n, model, response, count, msgs, t) ==
  [model |-> model, response |-> response, chunkCount |-> count, messages |-> msgs,
   updatedMessages |-> Append(msgs, ChatMessage(n, "assistant", response)),
   timestamp |-> t, totalCharacters |-> Len(response)]

\* model.split(':')[0]
ModelFamily(model) ==
  CASE model = "anthropic.claude-3-sonnet:0" -> "anthropic.claude-3-sonnet"
    [] OTHER -> model

\* BedrockService.formatMcpOutput(fullResponse, model, temperature, maxTokens,
\* useMcpProvider = true).  execute calls it with four arguments, so the
\* fifth takes its default.
FormatMcpOutput(response, model, useProvider, t) ==
  [type |-> "text", content |-> response, model |-> ModelFamily(model),
   timestamp |-> t, providerId |-> IF useProvider THEN "mcp" ELSE Undefined]

\* The catch block of execute: one error record on every output
\* (three outputs for GravityClaude, two for GravityOpenAI).
CatchOutputsKeepingStream(n, so, errorResponse) ==
  IF n = "claude"
    THEN << so \o <<errorResponse>>, <<errorResponse>>, <<errorResponse>> >>
    ELSE << so \o <<errorResponse>>, <<errorResponse>> >>
CatchOutputs(n, so, errorResponse) ==
  IF n = "claude"
    THEN << <<errorResponse>>, <<errorResponse>>, <<errorResponse>> >>
    ELSE << <<errorResponse>>, <<errorResponse>> >>

\* The clock readings an action may observe: time does not go backwards.
ClockReadings == {t \in now..(now + 1) : t <= MaxClock}


\* =====================================================================
\*  Publishing nodes: GravityOutput and GravityUpdate
\* =====================================================================

PublishNodes == {"output", "update"}

\* MessageType (the discriminants the two switch statements dispatch on)
MessageType_TEXT == "text"
MessageType_JSON_DATA == "jsonData"
MessageType_IMAGE_RESPONSE == "imageResponse"
MessageType_TOOL_OUTPUT == "toolOutput"
MessageType_ACTION_SUGGESTION == "actionSuggestion"
MessageType_PROGRESS_UPDATE == "progressUpdate"
MessageType_MESSAGE_CHUNK == "messageChunk"
MessageType_METADATA == "metadata"

\* Values the outputType / updateType parameter can evaluate to: the cases of
\* the node's switch and one value that reaches its default branch.
OutputTypes ==
  {MessageType_TEXT, MessageType_JSON_DATA, MessageType_IMAGE_RESPONSE,
   MessageType_TOOL_OUTPUT, MessageType_ACTION_SUGGESTION, MessageType_METADATA}
UpdateTypes ==
  {MessageType_PROGRESS_UPDATE, MessageType_MESSAGE_CHUNK, MessageType_JSON_DATA,
   MessageType_METADATA, MessageType_TEXT}

\* The types whose case wraps parse, build and publish in an inner try/catch.
JsonTypes(n) ==
  IF n = "output"
    THEN {MessageType_JSON_DATA, MessageType_TOOL_OUTPUT, MessageType_ACTION_SUGGESTION}
    ELSE {MessageType_JSON_DATA}

\* The types the node's switch has a case for.
SupportedTypes(n) ==
  IF n = "output"
    THEN OutputTypes \ {MessageType_METADATA}
    ELSE UpdateTypes \ {MessageType_TEXT}

\* --- JSON.parse -----------------------------------------------------

\* Values of the jsonData string parameter: an object, an array, not JSON.
JsonStrings == {"{\"a\":1}", "[{\"a\":1},{\"a\":2}]", "{oops"}

JObject(members) == [kind |-> "object", members |-> members]
JArray(elements) == [kind |-> "array", members |-> elements]

\* JSON.parse(s): the parsed value, or a SyntaxError.
JSONParseLenient(s) ==
  CASE s = "{\"a\":1}" -> [ok |-> TRUE, value |-> JObject(<<"a:1">>)]
    [] s = "[{\"a\":1},{\"a\":2}]" ->
         [ok |-> TRUE, value |-> JArray(<<JObject(<<"a:1">>), JObject(<<"a:2">>)>>)]
    [] OTHER -> [ok |-> TRUE, value |-> JObject(<<>>)]
JSONParse(s) ==
  CASE s = "{\"a\":1}" -> [ok |-> TRUE, value |-> JObject(<<"a:1">>)]
    [] s = "[{\"a\":1},{\"a\":2}]" ->
         [ok |-> TRUE, value |-> JArray(<<JObject(<<"a:1">>), JObject(<<"a:2">>)>>)]
    [] OTHER -> [ok |-> FALSE, value |-> JObject(<<>>)]

\* Array.isArray(v)
IsArray(v) == v.kind = "array"

\* Array.isArray(parsedData) ? parsedData : [parsedData]
DataArrayAlwaysWrapped(v) == <<v>>
DataArray(v) == IF IsArray(v) THEN v.members ELSE <<v>>

\* --- errors ---------------------------------------------------------

\* Errors carry their constructor name, their message and, for a
\* NodeOperationError built with {itemIndex}, the item index (-1: none).
PlainError(msg) == [name |-> "Error", message |-> msg, itemIndex |-> -1]

NodeOperationError(msg, idx) ==
  [name |-> "NodeOperationError", message |-> msg, itemIndex |-> idx]

\* What Publisher.publishEvent rejects with.
PublishErrors == {PlainError("bus unavailable"), PlainError("")}

\* What getCredentials rejects with.
CredentialErrors == {PlainError("credentials not found")}

NoFailure == [name |-> "<none>", message |-> "", itemIndex |-> -1]

\* --- identity and envelope -------------------------------------------

\* Values of the chatId / conversationId / userId parameters of one item.
\* GravityUpdate copies the three into the base event without looking at
\* them, so one empty field stands for the three there.
IdentityInputs(n) ==
  {[chatId |-> "chat1", conversationId |-> "conv1", userId |-> "user1"],
   [chatId |-> "chat1", conversationId |-> "", userId |-> "user1"]}
  \cup (IF n = "output"
          THEN {[chatId |-> "", conversationId |-> "conv1", userId |-> "user1"],
                [chatId |-> "chat1", conversationId |-> "conv1", userId |-> ""]}
          ELSE {})

\* this.getWorkflow()?.id and this.getNode()?.id
WorkflowIds == {Undefined, "wf1"}
NodeIds == {"node1"}

\* Math.random().toString(36).substr(2, 9): empty when the draw is 0.
RandomSuffixes == {"", "k3j9x0q2a"}

\* `n8n:${workflowId}:${nodeId}` with the "unknown" fallbacks
NodeProviderId(wf, nd) ==
  "n8n:" \o OrElse(wf, "unknown") \o ":" \o OrElse(nd, "unknown")

\* GravityOutput: if (!conversationId || !chatId || !userId) throw ...
\* GravityUpdate has no such check.
RequiredIdsMissing(n, p) ==
  n = "output" /\ (~Truthy(p.conversationId) \/ ~Truthy(p.chatId) \/ ~Truthy(p.userId))

\* let messageState = ChatState.ACTIVE; if (advancedOptions) messageState = <state>
MessageStateFromParameter(p) == p.state
MessageState(p) == IF p.advancedOptions THEN p.state ELSE ChatState_ACTIVE

\* `${Date.now()}-${Math.random().toString(36).substr(2, 9)}`
EventId(t, suffix) == [ms |-> t, suffix |-> suffix]

\* Number of characters of a non-negative integer written in decimal.
RECURSIVE DecimalDigits(_)
DecimalDigits(k) == IF k < 10 THEN 1 ELSE 1 + DecimalDigits(k \div 10)

\* Length of the id string: the digits, the dash, the suffix.
IdLength(id) == DecimalDigits(id.ms) + 1 + Len(id.suffix)

\* const baseEvent = { id, chatId, conversationId, userId, providerId, timestamp, state }
BaseEvent(p, providerId, t, suffix) ==
  [id |-> EventId(t, suffix), chatId |-> p.chatId, conversationId |-> p.conversationId,
   userId |-> p.userId, providerId |-> providerId, timestamp |-> t,
   state |-> MessageState(p)]

\* The variant encoders of gravity-server (createText, createJsonData, ...):
\* the base event with the discriminant and the payload attached.
CreateMessage(base, type, payload) ==
  [id |-> base.id, chatId |-> base.chatId, conversationId |-> base.conversationId,
   userId |-> base.userId, providerId |-> base.providerId,
   timestamp |-> base.timestamp, state |-> base.state,
   type |-> type, payload |-> payload, voiceConfig |-> <<>>]

\* message.voiceConfig = { enabled: true, textField: 'text' }
WithVoiceConfig(m) == [m EXCEPT !.voiceConfig = <<[enabled |-> TRUE, textField |-> "text"]>>]

\* The message one case of the switch builds for the item's parameters
\* (the JSON cases: from the parsed value).
BuildMessage(n, p, base) ==
  LET v == JSONParse(p.jsonData).value IN
  CASE p.type = MessageType_TEXT ->
         LET m == CreateMessage(base, MessageType_TEXT, [content |-> "hello"])
         IN  IF p.enableAudio THEN WithVoiceConfig(m) ELSE m
    [] p.type = MessageType_JSON_DATA ->
         CreateMessage(base, MessageType_JSON_DATA,
            [_dataType |-> IF n = "output" THEN "data" ELSE "calls", items |-> DataArray(v)])
    [] p.type = MessageType_IMAGE_RESPONSE ->
         CreateMessage(base, MessageType_IMAGE_RESPONSE, [url |-> "http://img", alt |-> ""])
    [] p.type = MessageType_TOOL_OUTPUT ->
         CreateMessage(base, MessageType_TOOL_OUTPUT, [tool |-> "search", result |-> v])
    [] p.type = MessageType_ACTION_SUGGESTION ->
         CreateMessage(base, MessageType_ACTION_SUGGESTION, [type |-> "open", payload |-> v])
    [] p.type = MessageType_PROGRESS_UPDATE ->
         CreateMessage(base, MessageType_PROGRESS_UPDATE, [message |-> "step 1"])
    [] p.type = MessageType_MESSAGE_CHUNK ->
         CreateMessage(base, MessageType_MESSAGE_CHUNK, [text |-> "Hel"])
    [] OTHER ->
         CreateMessage(base, MessageType_METADATA, [key |-> "k", value |-> "v"])

\* The error the inner catch of a JSON case throws in place of what it caught.
InvalidJsonError(n, type, idx) ==
  CASE n = "output" /\ type = MessageType_TOOL_OUTPUT ->
         NodeOperationError("Invalid JSON data for tool output", idx)
    [] n = "output" /\ type = MessageType_ACTION_SUGGESTION ->
         NodeOperationError("Invalid JSON data for action payload", idx)
    [] OTHER -> NodeOperationError("Invalid JSON data", idx)

\* The default branch of the switch.
UnsupportedTypeError(n, type, idx) ==
  NodeOperationError(
    (IF n = "output" THEN "Unsupported output type: " ELSE "Unsupported update type: ")
      \o type, idx)

\* The error that leaves the switch when publishEvent rejected with e.
AfterInnerCatch(n, type, e, idx) ==
  IF type \in JsonTypes(n) THEN InvalidJsonError(n, type, idx) ELSE e

\* Whether the item's catch block records the failure and goes on.
\* GravityOutput: advancedOptions ? errorHandling : "throw"; GravityUpdate:
\* this.continueOnFail().
ContinuesNever(n, p, cof) == FALSE
ContinuesAlways(n, p, cof) == TRUE
Continues(n, p, cof) ==
  IF n = "output"
    THEN p.advancedOptions /\ p.errorHandling = "continue"
    ELSE cof

\* The record the catch block pushes when it continues.
FailureRecordAsSuccess(n, idx, e) ==
  IF n = "output"
    THEN [input |-> idx, success |-> TRUE,
          error |-> OrElse(e.message, "Unknown error in Gravity Output")]
    ELSE [input |-> -1, success |-> TRUE, error |-> e.message]
FailureRecord(n, idx, e) ==
  IF n = "output"
    THEN [input |-> idx, success |-> FALSE,
          error |-> OrElse(e.message, "Unknown error in Gravity Output")]
    ELSE [input |-> -1, success |-> FALSE, error |-> e.message]

\* The error the catch block throws when it does not continue.
\* GravityOutput rethrows; GravityUpdate wraps what is not a NodeOperationError.
RethrownAsCaught(n, e, idx) == e
Rethrown(n, e, idx) ==
  IF n = "update" /\ e.name # "NodeOperationError"
    THEN NodeOperationError(e.message, idx)
    ELSE e

\* The record pushed after a successful publish.
SuccessRecord(n, idx, p, t) ==
  IF n = "output"
    THEN [input |-> idx, success |-> TRUE, type |-> p.type, state |-> MessageState(p),
          timestamp |-> t, conversationId |-> p.conversationId,
          chatId |-> p.chatId, userId |-> p.userId]
    ELSE [input |-> -1, success |-> TRUE, type |-> p.type, state |-> Undefined,
          timestamp |-> t, conversationId |-> Undefined,
          chatId |-> Undefined, userId |-> Undefined]

\* The item the loop turns to after an item failed and the catch continued
\* (itemIndex++ of the for statement).
IndexAfterFailureRetry(i) == i
IndexAfterFailure(i) == i + 1

\* The item the loop turns to after an item was published and its success
\* record pushed (itemIndex++ of the for statement).
IndexAfterSuccessRepeated(i) == i
IndexAfterSuccess(i) == i + 1

\* The parameters getNodeParameter yields for one item inside the try
\* block.  A parameter the code does not read on the item's path keeps its
\* default: state is read only with Advanced Options on, enableAudio only
\* for a text message, jsonData only in the JSON cases, and only of an item
\* that passed the identity check.  errorHandling is read by the catch block.
\* Only the jsonData case looks at the kind of the parsed value, so the array
\* input is given to that case alone.
ItemParams(n) ==
  {p \in [chatId : {"", "chat1"}, conversationId : {"", "conv1"}, userId : {"", "user1"},
          type : (IF n = "output" THEN OutputTypes ELSE UpdateTypes),
          advancedOptions : BOOLEAN,
          state : {ChatState_ACTIVE, ChatState_THINKING},
          errorHandling : {"throw"},
          enableAudio : BOOLEAN,
          jsonData : JsonStrings] :
      /\ [chatId |-> p.chatId, conversationId |-> p.conversationId, userId |-> p.userId]
           \in IdentityInputs(n)
      /\ (p.type # MessageType_TEXT \/ n = "update" \/ RequiredIdsMissing(n, p))
           => p.enableAudio = FALSE
      /\ (p.type \notin JsonTypes(n) \/ RequiredIdsMissing(n, p))
           => p.jsonData = "{\"a\":1}"
      /\ (p.type # MessageType_JSON_DATA) => ~IsArray(JSONParse(p.jsonData).value)
      /\ (~p.advancedOptions \/ RequiredIdsMissing(n, p)) => p.state = ChatState_ACTIVE}

\* Values of the errorHandling parameter of GravityOutput (GravityUpdate has
\* none).  With Advanced Options off the parameter is hidden and may still
\* hold a value set earlier.
ErrorHandlingInputs(n) == IF n = "output" THEN {"throw", "continue"} ELSE {"throw"}

\* The parameters record before any item was read.
NoParams ==
  [chatId |-> "", conversationId |-> "", userId |-> "", type |-> "<none>",
   advancedOptions |-> FALSE, state |-> ChatState_ACTIVE, errorHandling |-> "throw",
   enableAudio |-> FALSE, jsonData |-> "{\"a\":1}"]

\* The parameters read when only the catch block of GravityOutput runs:
\* advancedOptions (and errorHandling, drawn by the catch block).
CatchParams == {[NoParams EXCEPT !.advancedOptions = a] : a \in BOOLEAN}

\* No publishing node is executing.
PublishIdle ==
  /\ workflowId = Undefined
  /\ nodeId = Undefined
  /\ continueOnFail = FALSE
  /\ nItems = 0
  /\ itemIndex = 0
  /\ ppc = "idle"
  /\ cur = NoParams
  /\ message = <<>>
  /\ returnData = <<>>
  /\ published = <<>>
  /\ calls = <<>>
  /\ failures = <<>>
  /\ thrown = NoFailure

\* The bus holds no subscription of the node.
NoSubscription == [channel |-> "", state |-> "none"]

\* No trigger node is active.
InputIdle ==
  /\ tpc = "idle"
  /\ channel = ""
  /\ subscription = NoSubscription
  /\ delivered = <<>>
  /\ emitCalls = <<>>
  /\ closeCalls = 0
  /\ unsubscribeCalls = 0
  /\ triggerError = NoError

\* No concurrent invocations are under way.
ConcIdle ==
  /\ invocations = <<>>
  /\ instances = <<>>
  /\ envelopes = <<>>

\* No streaming node is executing.
StreamIdle ==
  /\ spc = "idle"
  /\ advancedOptions = [state |-> Undefined, progressMessage |-> Undefined]
  /\ stream = <<>>
  /\ fullResponse = ""
  /\ chunkCount = 0
  /\ streamOutput = <<>>
  /\ outputs = <<>>
  /\ caught = NoError
  /\ useMcpProvider = TRUE
  /\ messages = <<>>

StreamInit ==
  /\ PublishIdle
  /\ ConcIdle
  /\ InputIdle
  /\ node \in StreamNodes
  /\ spc = "start"
  /\ advancedOptions \in
       IF node = "claude"
         THEN [state : ClaudeStateOptions, progressMessage : ClaudeProgressOptions]
         ELSE {[state |-> Undefined, progressMessage |-> Undefined]}
  /\ stream = <<>>
  /\ fullResponse = ""
  /\ chunkCount = 0
  /\ streamOutput = <<>>
  /\ outputs = <<>>
  /\ caught = NoError
  /\ useMcpProvider \in (IF node = "claude" THEN BOOLEAN ELSE {TRUE})
  /\ messages = <<>>
  /\ now = 0

\* execute, up to the call of sendXRequest: parameters and credentials read.
Prepare ==
  /\ spc = "start"
  /\ spc' = "request"
  /\ \E msgs \in InputMessages(node) : messages' = msgs
  /\ UNCHANGED publishVars /\ UNCHANGED concVars /\ UNCHANGED inputVars /\ UNCHANGED <<node, useMcpProvider, advancedOptions, stream, fullResponse, chunkCount,
                 streamOutput, outputs, caught, now>>

\* getNodeParameter / getCredentials throws: the catch block returns.
PrepareFails ==
  /\ spc = "start"
  /\ \E e \in StreamErrors, t \in ClockReadings :
       /\ caught' = e
       /\ now' = t
       /\ outputs' = CatchOutputs(node, streamOutput, FormatErrorResponse(e, t))
  /\ spc' = "returned"
  /\ UNCHANGED publishVars /\ UNCHANGED concVars /\ UNCHANGED inputVars /\ UNCHANGED <<node, useMcpProvider, messages, advancedOptions, stream, fullResponse, chunkCount, streamOutput>>

\* sendXRequest: the client call resolved with a stream; the accumulators are
\* initialised.
SendRequest ==
  /\ spc = "request"
  /\ spc' = "streaming"
  /\ fullResponse' = ""
  /\ chunkCount' = 0
  /\ UNCHANGED publishVars /\ UNCHANGED concVars /\ UNCHANGED inputVars /\ UNCHANGED <<node, useMcpProvider, messages, advancedOptions, stream, streamOutput, outputs, caught, now>>

\* sendXRequest: the client call rejected (before any fragment).
SendRequestFails ==
  /\ spc = "request"
  /\ \E e \in StreamErrors, t \in ClockReadings :
       /\ caught' = e
       /\ now' = t
       /\ outputs' = CatchOutputs(node, streamOutput, FormatErrorResponse(e, t))
  /\ spc' = "returned"
  /\ UNCHANGED publishVars /\ UNCHANGED concVars /\ UNCHANGED inputVars /\ UNCHANGED <<node, useMcpProvider, messages, advancedOptions, stream, fullResponse, chunkCount, streamOutput>>

\* One iteration of `for await (const chunk of stream)`.
StreamEvent ==
  /\ spc = "streaming"
  /\ Len(stream) < MaxFragments
  /\ \E text \in EventTexts, t \in ClockReadings :
       /\ stream' = Append(stream, text)
       /\ IF HasText(text)
            THEN /\ fullResponse' = Accumulate(fullResponse, text)
                 /\ chunkCount' = chunkCount + 1
                 /\ streamOutput' = Append(streamOutput,
                        OnChunk(node, advancedOptions, text,
                                CallbackIndex(chunkCount + 1), t))
                 /\ now' = t
            ELSE UNCHANGED <<fullResponse, chunkCount, streamOutput, now>>
  /\ UNCHANGED publishVars /\ UNCHANGED concVars /\ UNCHANGED inputVars /\ UNCHANGED <<node, useMcpProvider, messages, spc, advancedOptions, outputs, caught>>

\* The stream iterator rejects: the error leaves sendXRequest and reaches the
\* catch block of execute.
StreamFails ==
  /\ spc = "streaming"
  /\ \E e \in StreamErrors, t \in ClockReadings :
       /\ caught' = e
       /\ now' = t
       /\ outputs' = CatchOutputs(node, streamOutput, FormatErrorResponse(e, t))
  /\ spc' = "returned"
  /\ UNCHANGED publishVars /\ UNCHANGED concVars /\ UNCHANGED inputVars /\ UNCHANGED <<node, useMcpProvider, messages, advancedOptions, stream, fullResponse, chunkCount, streamOutput>>

\* The stream is exhausted: sendXRequest returns {fullResponse, chunkCount};
\* execute pushes the completion chunk, builds the result and returns.
StreamEnds ==
  /\ spc = "streaming"
  /\ \E t \in ClockReadings :
       /\ now' = t
       /\ streamOutput' = Append(streamOutput,
              CompletionChunk(node, advancedOptions, chunkCount, t))
       /\ outputs' =
            LET final == <<CreateFinalResponseObject(node, ModelParam(node), fullResponse,
                                                     chunkCount, messages, t)>>
            IN  IF node = "claude"
                  THEN <<streamOutput', final,
                         <<FormatMcpOutput(fullResponse, ModelParam(node), TRUE, t)>> >>
                  ELSE <<streamOutput', final>>
  /\ spc' = "returned"
  /\ UNCHANGED publishVars /\ UNCHANGED concVars /\ UNCHANGED inputVars /\ UNCHANGED <<node, useMcpProvider, messages, advancedOptions, stream, fullResponse, chunkCount, caught>>

StreamNext ==
  \/ Prepare
  \/ PrepareFails
  \/ SendRequest
  \/ SendRequestFails
  \/ StreamEvent
  \/ StreamFails
  \/ StreamEnds

SpecStream == StreamInit /\ [][StreamNext]_vars


\* =====================================================================
\*  GravityOutput.execute / GravityUpdate.execute
\* =====================================================================

PublishInit ==
  /\ StreamIdle
  /\ ConcIdle
  /\ InputIdle
  /\ now = 0
  /\ node \in PublishNodes
  /\ workflowId \in WorkflowIds
  /\ nodeId \in NodeIds
  /\ continueOnFail \in (IF node = "update" THEN BOOLEAN ELSE {FALSE})
  /\ nItems \in 0..MaxItems
  /\ itemIndex = 0
  /\ ppc = "start"
  /\ cur = NoParams
  /\ message = <<>>
  /\ returnData = <<>>
  /\ published = <<>>
  /\ calls = <<>>
  /\ failures = <<>>
  /\ thrown = NoFailure

\* The item's catch block, entered with `surfaced` for an item whose
\* parameters are p; `raised` is the error first thrown inside the try.
Fail(p0, origin, raised, surfaced) ==
  \E h \in ErrorHandlingInputs(node) :
    LET p == [p0 EXCEPT !.errorHandling = h] IN
    /\ cur' = p
    /\ failures' = Append(failures,
          [item |-> itemIndex, origin |-> origin, raised |-> raised,
           surfaced |-> surfaced, advancedOptions |-> p.advancedOptions,
           errorHandling |-> p.errorHandling,
           continued |-> Continues(node, p, continueOnFail)])
    /\ message' = <<>>
    /\ IF Continues(node, p, continueOnFail)
         THEN /\ returnData' = Append(returnData, FailureRecord(node, itemIndex, surfaced))
              /\ itemIndex' = IndexAfterFailure(itemIndex)
              /\ ppc' = "loop"
              /\ thrown' = thrown
         ELSE /\ thrown' = Rethrown(node, surfaced, itemIndex)
              /\ ppc' = "thrown"
              /\ UNCHANGED <<returnData, itemIndex>>

\* execute up to the loop.  GravityUpdate computes the provider id, reads the
\* credentials and creates its publisher here; GravityOutput does so per item.
Begin ==
  /\ ppc = "start"
  /\ ppc' = "loop"
  /\ UNCHANGED <<node, now, streamVars, concVars, inputVars, workflowId, nodeId, continueOnFail, nItems,
                 itemIndex, cur, message, returnData, published, calls, failures, thrown>>

\* GravityUpdate: getCredentials rejects before the loop; the outer catch
\* rethrows.
UpdateCredentialsFail ==
  /\ node = "update"
  /\ ppc = "start"
  /\ \E e \in CredentialErrors : thrown' = e
  /\ ppc' = "thrown"
  /\ UNCHANGED <<node, now, streamVars, concVars, inputVars, workflowId, nodeId, continueOnFail, nItems,
                 itemIndex, cur, message, returnData, published, calls, failures>>

\* GravityOutput: getCredentials rejects inside the item's try block.
OutputCredentialsFail ==
  /\ node = "output"
  /\ ppc = "loop"
  /\ itemIndex < nItems
  /\ \E p \in CatchParams, e \in CredentialErrors :
       Fail(p, "credentials", e, e)
  /\ UNCHANGED <<node, now, streamVars, concVars, inputVars, workflowId, nodeId, continueOnFail, nItems,
                 published, calls>>

\* One pass of the loop body up to `await publisher.publishEvent(...)`:
\* parameters, validation, base event, the case of the switch.
ProcessItemOf(params) ==
  /\ ppc = "loop"
  /\ itemIndex < nItems
  /\ \E p \in params, suffix \in RandomSuffixes :
       LET base == BaseEvent(p, NodeProviderId(workflowId, nodeId), now, suffix) IN
       IF RequiredIdsMissing(node, p)
            THEN /\ Fail(p, "validation",
                         NodeOperationError("Required IDs missing", itemIndex),
                         NodeOperationError("Required IDs missing", itemIndex))
                 /\ UNCHANGED calls
            ELSE IF p.type \notin SupportedTypes(node)
              THEN /\ Fail(p, "type",
                           UnsupportedTypeError(node, p.type, itemIndex),
                           UnsupportedTypeError(node, p.type, itemIndex))
                   /\ UNCHANGED calls
              ELSE IF p.type \in JsonTypes(node) /\ ~JSONParse(p.jsonData).ok
                THEN /\ Fail(p, "json", PlainError("Unexpected token"),
                             InvalidJsonError(node, p.type, itemIndex))
                     /\ UNCHANGED calls
                ELSE /\ cur' = p
                     /\ message' = <<BuildMessage(node, p, base)>>
                     /\ calls' = Append(calls, itemIndex)
                     /\ ppc' = "publishing"
                     /\ UNCHANGED <<returnData, itemIndex, failures, thrown>>
  /\ UNCHANGED <<node, now, streamVars, concVars, inputVars, workflowId, nodeId, continueOnFail, nItems, published>>

ProcessItem == ProcessItemOf(ItemParams(node))

\* publishEvent resolves: the success record is pushed and the loop goes on.
PublishResolves ==
  /\ ppc = "publishing"
  /\ published' = Append(published, [item |-> itemIndex, event |-> message[1]])
  /\ returnData' = Append(returnData, SuccessRecord(node, itemIndex, cur, now))
  /\ message' = <<>>
  /\ itemIndex' = IndexAfterSuccess(itemIndex)
  /\ ppc' = "loop"
  /\ UNCHANGED <<node, now, streamVars, concVars, inputVars, workflowId, nodeId, continueOnFail, nItems, cur,
                 calls, failures, thrown>>

\* publishEvent rejects: the inner catch of a JSON case replaces the error,
\* then the item's catch block runs.
PublishRejects ==
  /\ ppc = "publishing"
  /\ \E e \in PublishErrors :
       Fail(cur, "publish", e, AfterInnerCatch(node, cur.type, e, itemIndex))
  /\ UNCHANGED <<node, now, streamVars, concVars, inputVars, workflowId, nodeId, continueOnFail, nItems,
                 published, calls>>

\* The loop is over: return [returnData].
Return ==
  /\ ppc = "loop"
  /\ itemIndex >= nItems
  /\ ppc' = "returned"
  /\ UNCHANGED <<node, now, streamVars, concVars, inputVars, workflowId, nodeId, continueOnFail, nItems,
                 itemIndex, cur, message, returnData, published, calls, failures, thrown>>

PublishNext ==
  \/ Begin
  \/ UpdateCredentialsFail
  \/ OutputCredentialsFail
  \/ ProcessItem
  \/ PublishResolves
  \/ PublishRejects
  \/ Return

SpecPublish == PublishInit /\ [][PublishNext]_vars

\* Every execution of either kind of node.
Init == StreamInit \/ PublishInit
Next == StreamNext \/ PublishNext
Spec == Init /\ [][Next]_vars

\* =====================================================================
\*  One item, every combination of its parameters
\* =====================================================================

\* Every value getNodeParameter can yield for the parameters of one item,
\* those of hidden parameters included (a parameter hidden by displayOptions
\* keeps the value stored in the workflow).
AllItemParams(n) ==
  [chatId : {"", "chat1"}, conversationId : {"", "conv1"}, userId : {"", "user1"},
   type : (IF n = "output" THEN OutputTypes ELSE UpdateTypes),
   advancedOptions : BOOLEAN,
   state : {ChatState_ACTIVE, ChatState_THINKING, ChatState_COMPLETE},
   errorHandling : {"throw"},
   enableAudio : BOOLEAN,
   jsonData : JsonStrings]

\* execute is invoked with a single input item.
EnvelopeInit == PublishInit /\ nItems = 1

ProcessAnyItem == ProcessItemOf(AllItemParams(node))

EnvelopeNext ==
  \/ Begin
  \/ UpdateCredentialsFail
  \/ OutputCredentialsFail
  \/ ProcessAnyItem
  \/ PublishResolves
  \/ PublishRejects
  \/ Return

SpecEnvelope == EnvelopeInit /\ [][EnvelopeNext]_vars

\* =====================================================================
\*  Two streaming invocations with interleaved fragment arrivals
\* =====================================================================

\* The advancedOptions of an invocation: GravityClaude is run with a state
\* override, GravityOpenAI has no such parameter.
InvocationOptions(n) ==
  IF n = "claude"
    THEN {[state |-> ChatState_THINKING, progressMessage |-> Undefined]}
    ELSE {[state |-> Undefined, progressMessage |-> Undefined]}

\* The text delta of an event of an interleaved stream: empty, or a fragment.
InterleavedTexts == {"", "Hel", "lo"}

\* The locals of one invocation when sendXRequest enters its loop:
\* execute's streamOutput = [], sendXRequest's fullResponse = '' and
\* chunkCount = 0.
NewInvocation(n, opts) ==
  [node |-> n, opts |-> opts, pc |-> "streaming", stream |-> <<>>,
   fullResponse |-> "", chunkCount |-> 0, streamOutput |-> <<>>]

\* One iteration of the for-await loop on the locals of one invocation.
AfterEvent(iv, text, t) ==
  IF HasText(text)
    THEN [iv EXCEPT !.stream = Append(@, text),
                    !.fullResponse = Accumulate(@, text),
                    !.chunkCount = @ + 1,
                    !.streamOutput = Append(@,
                        OnChunk(iv.node, iv.opts, text, CallbackIndex(iv.chunkCount + 1), t))]
    ELSE [iv EXCEPT !.stream = Append(@, text)]

\* The end of the stream on the locals of one invocation: the completion
\* chunk is pushed and execute returns.
AfterEnd(iv, t) ==
  [iv EXCEPT !.pc = "returned",
             !.streamOutput = Append(@, CompletionChunk(iv.node, iv.opts, iv.chunkCount, t))]

\* An event delivered to invocation i: fullResponse, chunkCount (let, in
\* sendXRequest) and streamOutput (const, in execute) are locals of the call,
\* so the step reads and writes the locals of i alone.
DeliverSharedCounter(invs, i, text, t) ==
  [j \in DOMAIN invs |->
     IF j = i THEN AfterEvent(invs[j], text, t)
              ELSE [invs[j] EXCEPT !.chunkCount = IF HasText(text) THEN @ + 1 ELSE @]]
Deliver(invs, i, text, t) == [invs EXCEPT ![i] = AfterEvent(invs[i], text, t)]

TwoStreamsInit ==
  /\ PublishIdle
  /\ StreamIdle
  /\ InputIdle
  /\ node = "<several>"
  /\ now = 0
  /\ instances = <<>>
  /\ envelopes = <<>>
  /\ \E n1 \in StreamNodes, n2 \in StreamNodes :
       \E o1 \in InvocationOptions(n1), o2 \in InvocationOptions(n2) :
         \* which of the two is called first is immaterial
         /\ n1 = "claude" \/ n2 = "openai"
         /\ invocations = <<NewInvocation(n1, o1), NewInvocation(n2, o2)>>

\* The stream of one of the invocations delivers its next event.
InvocationEvent ==
  /\ \E i \in DOMAIN invocations, text \in InterleavedTexts, t \in ClockReadings :
       /\ invocations[i].pc = "streaming"
       /\ Len(invocations[i].stream) < MaxInterleaved
       /\ invocations' = Deliver(invocations, i, text, t)
       /\ now' = t
  /\ UNCHANGED <<node, streamVars, publishVars, inputVars, instances, envelopes>>

\* The stream of one of the invocations is exhausted.
InvocationEnds ==
  /\ \E i \in DOMAIN invocations, t \in ClockReadings :
       /\ invocations[i].pc = "streaming"
       /\ invocations' = [invocations EXCEPT ![i] = AfterEnd(@, t)]
       /\ now' = t
  /\ UNCHANGED <<node, streamVars, publishVars, inputVars, instances, envelopes>>

TwoStreamsNext == InvocationEvent \/ InvocationEnds

SpecTwoStreams == TwoStreamsInit /\ [][TwoStreamsNext]_vars

\* =====================================================================
\*  Two adapter instances publishing into one conversation
\* =====================================================================

\* The workflows this.getWorkflow() can return: saved ones have an id, a
\* workflow that was never saved has none.
Workflows ==
  {[key |-> "A", id |-> "wf1"], [key |-> "B", id |-> "wf2"],
   [key |-> "C", id |-> Undefined], [key |-> "D", id |-> Undefined]}

\* The nodes this.getNode() can return: the same id can occur in two workflows
\* (a workflow imported twice), and a node stored without an id has none.
Nodes ==
  {[key |-> "n1", id |-> "node1"], [key |-> "n2", id |-> "node2"],
   [key |-> "n3", id |-> Undefined], [key |-> "n4", id |-> Undefined]}

\* An adapter instance: a GravityOutput or GravityUpdate node of a workflow.
Instances == [workflow : Workflows, node : Nodes]

\* The provider id the instance computes for its publisher and base event.
InstanceProviderId(inst) == NodeProviderId(inst.workflow.id, inst.node.id)

ProvidersInit ==
  /\ PublishIdle
  /\ StreamIdle
  /\ InputIdle
  /\ node = "<several>"
  /\ now = 0
  /\ invocations = <<>>
  /\ envelopes = <<>>
  /\ \E a \in Instances, b \in Instances :
       /\ a.workflow.key # b.workflow.key \/ a.node.key # b.node.key
       /\ instances = <<a, b>>

\* One of the two instances publishes an envelope into conversation "conv1".
InstancePublishes ==
  /\ Len(envelopes) < MaxEnvelopes
  /\ \E i \in DOMAIN instances :
       envelopes' = Append(envelopes,
          [instance |-> i, conversationId |-> "conv1",
           providerId |-> InstanceProviderId(instances[i])])
  /\ UNCHANGED <<node, now, streamVars, publishVars, inputVars, invocations, instances>>

ProvidersNext == InstancePublishes

SpecProviders == ProvidersInit /\ [][ProvidersNext]_vars

\* =====================================================================
\*  GravityInput.trigger
\* =====================================================================

MaxEvents == 2
MaxCloses == 2

\* Constants of @gravityai-dev/gravity-server; their values are the
\* library's.
EVENT_CHANNEL_PREFIX == "<EVENT_CHANNEL_PREFIX>"
QUERY_MESSAGE_CHANNEL == "<QUERY_MESSAGE_CHANNEL>"

\* The values of the Channel parameter: its default and one typed in.
Channels == {QUERY_MESSAGE_CHANNEL, "custom"}

\* `${EVENT_CHANNEL_PREFIX}${channel}`
FullChannelUnprefixed(ch) == ch
FullChannel(ch) == EVENT_CHANNEL_PREFIX \o ch

\* JavaScript values an event can carry as its payload.
JsUndefined == [type |-> "undefined"]
JsNull == [type |-> "null"]
JsString(str) == [type |-> "string", value |-> str]
Payloads ==
  {JsNull, JsString(""),
   [type |-> "object", message |-> "Hi", conversationId |-> "conv1"]}

\* The events the bus delivers: with a payload property or without one.
EventIds == {"e1", "e2"}
Events ==
  {[id |-> i] : i \in EventIds} \cup {[id |-> i, payload |-> p] : i \in EventIds, p \in Payloads}

\* event.payload
EventPayload(event) ==
  IF "payload" \in DOMAIN event THEN event.payload ELSE JsUndefined

\* The left operand of || is taken when it is truthy.
JsTruthy(v) ==
  /\ v.type \notin {"undefined", "null"}
  /\ ~(v.type = "string" /\ v.value = "")

\* const message = event.payload || event
MessageWholeEvent(event) == event
Message(event) ==
  IF JsTruthy(EventPayload(event)) THEN event.payload ELSE event

\* this.helpers.returnJsonArray(items): one execution record per item.
ReturnJsonArray(items) == [i \in DOMAIN items |-> [json |-> items[i]]]

\* What this.emit does with the calls the callback makes for one event:
\* it accepts the first; or throws on the first and accepts the second; or
\* throws on both.
EmitOutcomes == {<<TRUE>>, <<FALSE, TRUE>>, <<FALSE, FALSE>>}

\* The errors the collaborators of trigger raise.
TriggerErrors == {[message |-> "no credentials"], [message |-> "connection refused"]}
EmitErrors == {[message |-> "emit failed"]}

\* The emit calls of the subscription callback for the k-th event: the
\* message, and in the catch block the record {error, originalMessage}.
CallbackEmits(event, k, outcome, e) ==
  LET msg == Message(event)
      first == [event |-> k, accepted |-> outcome[1],
                data |-> <<ReturnJsonArray(<<msg>>)>>]
      second == [event |-> k, accepted |-> outcome[Len(outcome)],
                 data |-> <<ReturnJsonArray(<<[error |-> e.message,
                                               originalMessage |-> msg]>>)>>]
  IN IF outcome[1] THEN <<first>> ELSE <<first, second>>

\* trigger was called and awaits this.getCredentials.
InputInit ==
  /\ PublishIdle
  /\ StreamIdle
  /\ ConcIdle
  /\ node = "input"
  /\ now = 0
  /\ tpc = "credentials"
  /\ channel \in Channels
  /\ subscription = NoSubscription
  /\ delivered = <<>>
  /\ emitCalls = <<>>
  /\ closeCalls = 0
  /\ unsubscribeCalls = 0
  /\ triggerError = NoError

\* getCredentials rejects: the catch block rethrows.
GetCredentialsRejects ==
  /\ tpc = "credentials"
  /\ \E e \in TriggerErrors : triggerError' = e
  /\ tpc' = "thrown"
  /\ UNCHANGED <<node, now, streamVars, publishVars, concVars, channel, subscription,
                 delivered, emitCalls, closeCalls, unsubscribeCalls>>

\* getCredentials resolves, the event bus is created and subscribe is
\* called with the prefixed channel.
GetCredentialsResolves ==
  /\ tpc = "credentials"
  /\ subscription' = [channel |-> FullChannel(channel), state |-> "pending"]
  /\ tpc' = "subscribing"
  /\ UNCHANGED <<node, now, streamVars, publishVars, concVars, channel, delivered,
                 emitCalls, closeCalls, unsubscribeCalls, triggerError>>

\* getCredentials resolves and EventBus.fromCredentials throws.
EventBusCreationFails ==
  /\ tpc = "credentials"
  /\ \E e \in TriggerErrors : triggerError' = e
  /\ tpc' = "thrown"
  /\ UNCHANGED <<node, now, streamVars, publishVars, concVars, channel, subscription,
                 delivered, emitCalls, closeCalls, unsubscribeCalls>>

\* subscribe resolves with the unsubscribe function: trigger returns
\* {closeFunction}.
SubscribeResolves ==
  /\ tpc = "subscribing"
  /\ subscription' = [subscription EXCEPT !.state = "active"]
  /\ tpc' = "returned"
  /\ UNCHANGED <<node, now, streamVars, publishVars, concVars, channel, delivered,
                 emitCalls, closeCalls, unsubscribeCalls, triggerError>>

\* subscribe rejects: the catch block rethrows.
SubscribeRejects ==
  /\ tpc = "subscribing"
  /\ \E e \in TriggerErrors : triggerError' = e
  /\ subscription' = [subscription EXCEPT !.state = "rejected"]
  /\ tpc' = "thrown"
  /\ UNCHANGED <<node, now, streamVars, publishVars, concVars, channel, delivered,
                 emitCalls, closeCalls, unsubscribeCalls>>

\* The bus hands an event to the subscription callback, which runs to its
\* end (it awaits nothing).
OnEvent ==
  /\ subscription.state = "active"
  /\ Len(delivered) < MaxEvents
  /\ \E event \in Events, outcome \in EmitOutcomes, e \in EmitErrors :
       /\ delivered' = Append(delivered, event)
       /\ emitCalls' = emitCalls \o CallbackEmits(event, Len(delivered) + 1, outcome, e)
  /\ UNCHANGED <<node, now, streamVars, publishVars, concVars, tpc, channel,
                 subscription, closeCalls, unsubscribeCalls, triggerError>>

\* The engine calls closeFunction, which awaits unsubscribe(); the bus
\* removes the subscription, or unsubscribe rejects and it stays.
Close ==
  /\ tpc = "returned"
  /\ closeCalls < MaxCloses
  /\ closeCalls' = closeCalls + 1
  /\ unsubscribeCalls' = unsubscribeCalls + 1
  /\ \E removed \in BOOLEAN :
       subscription' = IF removed THEN [subscription EXCEPT !.state = "removed"]
                                  ELSE subscription
  /\ UNCHANGED <<node, now, streamVars, publishVars, concVars, tpc, channel, delivered,
                 emitCalls, triggerError>>

InputNext ==
  \/ GetCredentialsRejects
  \/ GetCredentialsResolves
  \/ EventBusCreationFails
  \/ SubscribeResolves
  \/ SubscribeRejects
  \/ OnEvent
  \/ Close

SpecInput == InputInit /\ [][InputNext]_vars

\* ---------------------------------------------------------------------
\*  Properties of the streaming nodes
\* ---------------------------------------------------------------------

\* The fragments among the delivered events: the truthy text deltas, in order.
Fragments == SelectSeq(stream, Truthy)

\* execute returned through its normal path / through its catch block.
ReturnedOk == spc = "returned" /\ caught = NoError
ReturnedError == spc = "returned" /\ caught # NoError

\* The chunk envelopes pushed by the onChunk callback so far (the completion
\* chunk, pushed last on the normal path, is not one of them).
Chunks ==
  IF ReturnedOk THEN SubSeq(streamOutput, 1, Len(streamOutput) - 1) ELSE streamOutput

\* C1: at every moment of an execution of GravityClaude / GravityOpenAI the
\* chunks handed to the callback are exactly the non-empty fragments received
\* so far, in arrival order, the k-th of them (from 0) with chunkIndex = k.
C1_ChunkIndexFollowsArrival ==
  /\ Len(Chunks) = Len(Fragments)
  /\ \A k \in 1..Len(Fragments) :
       /\ Chunks[k].text = Fragments[k]
       /\ Chunks[k].chunkIndex = k - 1

\* C1 witness: two fragments were delivered after an empty event.
C1_Witness ==
  /\ Len(Chunks) >= 2
  /\ \E i \in 1..Len(stream) : ~Truthy(stream[i]) /\ i < Len(stream) /\ Truthy(stream[i + 1])

\* C2: when the stream is exhausted without error, the Stream output is the
\* chunks followed by exactly one completion envelope: it is the last element,
\* has text " " and chunkIndex = number of non-empty fragments, and no other
\* element carries that index; the output has fragmentCount + 1 elements.
C2_OneCompletionEnvelopeLast ==
  ReturnedOk =>
    LET so == outputs[1]
        n == Len(Fragments)
    IN  /\ Len(so) = n + 1
        /\ chunkCount = n
        /\ so[n + 1].text = " "
        /\ so[n + 1].chunkIndex = n
        /\ {k \in 1..Len(so) : so[k].chunkIndex = n} = {n + 1}
        /\ SubSeq(so, 1, n) = Chunks

\* C2 witness: a successful execution whose stream had both an empty event
\* and a fragment.
C2_Witness ==
  /\ ReturnedOk
  /\ Len(Fragments) >= 1
  /\ Len(Fragments) < Len(stream)

\* C3: when the node is run with a state override, every envelope of the
\* stream output (chunks and completion envelope) carries the override.
C3_OverrideOnEveryEnvelope ==
  Truthy(advancedOptions.state) =>
    \A k \in 1..Len(streamOutput) : streamOutput[k].state = advancedOptions.state

\* C4 (as claimed): after a failure of the fragment source that follows at
\* least one fragment, the returned Stream output still holds the chunk
\* envelopes produced so far, and the failure is reported.
C4_PartialChunksReturned ==
  (ReturnedError /\ Len(streamOutput) > 0) =>
    /\ Len(outputs[1]) >= Len(streamOutput)
    /\ SubSeq(outputs[1], 1, Len(streamOutput)) = streamOutput

\* C4 (amended): after a failure, the chunk envelopes of all fragments received
\* had been collected by the callback, and execute returns exactly one error
\* record with the failure's message ('Unknown error' when it has none) on
\* every output; the collected chunks are not part of what is returned.
C4_FailureReportedChunksDiscarded ==
  ReturnedError =>
    /\ Len(streamOutput) = Len(Fragments)
    /\ Len(outputs) = (IF node = "claude" THEN 3 ELSE 2)
    /\ \A o \in 1..Len(outputs) :
         /\ Len(outputs[o]) = 1
         /\ outputs[o][1].error = TRUE
         /\ outputs[o][1].message = OrElse(caught.message, "Unknown error")

\* C4 witness: the source failed after two fragments had been received.
C4_Witness ==
  /\ ReturnedError
  /\ Len(streamOutput) >= 2

\* C11: a stream event whose text delta is empty or absent changes neither
\* the stream output nor chunkCount nor fullResponse, so at every moment
\* chunkCount and the number of chunks equal the number of non-empty
\* fragments received, and the chunk of the latest fragment carries the index
\* it would carry had the empty events not been delivered.
C11_EmptyEventsLeaveNoTrace ==
  /\ chunkCount = Len(Fragments)
  /\ Len(Chunks) = chunkCount
  /\ (stream # <<>> /\ stream[Len(stream)] \in {Undefined, ""}) =>
       (\A k \in 1..Len(Chunks) : Chunks[k].chunkIndex < Len(Fragments))
  /\ (stream # <<>> /\ stream[Len(stream)] \notin {Undefined, ""}) =>
       Chunks[Len(Chunks)].chunkIndex = Len(Fragments) - 1

\* C11 witness: an empty and an absent text delta were delivered before the
\* first fragment, which got index 0.
C11_Witness ==
  /\ Len(stream) = 3
  /\ stream[1] = ""
  /\ stream[2] = Undefined
  /\ stream[3] = "lo"
  /\ chunkCount = 1
  /\ streamOutput[1].chunkIndex = 0

\* The strings of a sequence joined in order.
RECURSIVE Joined(_)
Joined(strs) == IF strs = <<>> THEN "" ELSE strs[1] \o Joined(Tail(strs))

\* C12: fullResponse is at every moment the non-empty fragments received so
\* far joined in arrival order; the final result execute returns carries that
\* string, which the completion placeholder " " is not part of.
C12_FullResponseJoinsFragments ==
  /\ spc \in {"streaming", "returned"} => fullResponse = Joined(Fragments)
  /\ ReturnedOk =>
       /\ outputs[2][1].response = Joined(Fragments)
       /\ outputs[2][1].chunkCount = Len(Fragments)
       /\ Len(outputs[2][1].response) = Len(Joined(Fragments))

\* C12 witness: "lo" arrived before "Hel", with an empty event in between.
C12_Witness ==
  /\ ReturnedOk
  /\ stream = <<"lo", "", "Hel">>
  /\ outputs[2][1].response = "loHel"

\* C13: when no state override is supplied, every chunk envelope carries
\* 'responding' and the completion envelope, the last one of the returned
\* stream output, carries 'complete'.
C13_DefaultStreamingStates ==
  ~Truthy(advancedOptions.state) =>
    /\ \A k \in 1..Len(Chunks) : Chunks[k].state = ChatState_RESPONDING
    /\ ReturnedOk =>
         /\ outputs[1][Len(outputs[1])].state = ChatState_COMPLETE
         /\ \A k \in 1..(Len(outputs[1]) - 1) : outputs[1][k].state = ChatState_RESPONDING

\* C13 witness: GravityOpenAI returned two chunks and the completion envelope.
C13_Witness ==
  /\ node = "openai"
  /\ ReturnedOk
  /\ Len(outputs[1]) = 3

\* ---------------------------------------------------------------------
\*  Properties of the publishing nodes
\* ---------------------------------------------------------------------

\* The items for which publishEvent was called / accepted the message.
CalledItems == {calls[k] : k \in 1..Len(calls)}
PublishedItems == {published[k].item : k \in 1..Len(published)}

\* The failure handled last.
LastFailure == failures[Len(failures)]

\* cur holds the parameters of an item that went through the try block.
CurIsItem == cur.type # "<none>"

\* An identity field of the item processed last is empty.
CurIdentityEmpty ==
  CurIsItem /\ (cur.chatId = "" \/ cur.conversationId = "" \/ cur.userId = "")

\* C5: every message handed to publishEvent, by GravityOutput and by
\* GravityUpdate, carries a non-empty id, chatId, conversationId and userId.
C5_HandedEnvelopeHasIdentity ==
  message # <<>> =>
    /\ IdLength(message[1].id) > 0
    /\ message[1].chatId # ""
    /\ message[1].conversationId # ""
    /\ message[1].userId # ""

\* C6: an item one of whose identity fields is empty fails with the
\* validation error before a message is built: publishEvent is not pending
\* and was never called for it.
C6_EmptyIdentityFailsBeforePublish ==
  CurIdentityEmpty =>
    /\ message = <<>>
    /\ failures # <<>>
    /\ LastFailure.origin = "validation"
    /\ LastFailure.item \notin CalledItems

\* C7: an error publishEvent rejects with reaches the item's catch block as
\* it is, and when execute throws for that item it throws that error's message.
C7_PublishErrorUnchanged ==
  \A k \in 1..Len(failures) :
    failures[k].origin = "publish" =>
      /\ failures[k].surfaced = failures[k].raised
      /\ (ppc = "thrown" /\ k = Len(failures)) => thrown.message = failures[k].raised.message

\* A jsonData string that is not JSON.
NotJson(str) == str = "{oops"

\* C8: an item of a JSON type (jsonData, toolOutput, actionSuggestion) whose
\* JSON string does not parse fails with an error; no message is handed to
\* publishEvent for it: none is pending, none was called, none was accepted.
C8_MalformedJsonNeverPublished ==
  (CurIsItem /\ cur.type \in JsonTypes(node) /\ NotJson(cur.jsonData)) =>
    /\ message = <<>>
    /\ ppc # "publishing"
    /\ failures # <<>>
    /\ LastFailure.origin = "json"
    /\ LastFailure.item \notin CalledItems
    /\ LastFailure.item \notin PublishedItems
    /\ IF LastFailure.continued
         THEN returnData[Len(returnData)].success = FALSE
         ELSE ppc = "thrown" /\ thrown.name = "NodeOperationError"

\* C8 witness: an item with a malformed JSON string failed in the parse.
C8_Witness ==
  /\ CurIsItem
  /\ cur.type = MessageType_TOOL_OUTPUT
  /\ NotJson(cur.jsonData)
  /\ failures # <<>>
  /\ LastFailure.origin = "json"

\* C9 (as claimed): in GravityOutput every failure of an item whose Error
\* Handling parameter is 'continue' is recorded instead of thrown.
C9_ContinueOptionAlwaysRecords ==
  node = "output" =>
    \A k \in 1..Len(failures) :
      failures[k].errorHandling = "continue" => failures[k].continued

\* C9 (amended): in GravityOutput, a failure of an item that has Advanced
\* Options on and Error Handling = 'continue' is recorded as one record with
\* success = false and an error message at the item's position, the loop goes
\* on, and execute throws only for an item not so configured; while execute
\* has not thrown there is one record per item processed, and it returns one
\* record per input item.
C9_ContinueRecordsFailure ==
  node = "output" =>
    /\ \A k \in 1..Len(failures) :
         (failures[k].advancedOptions /\ failures[k].errorHandling = "continue") =>
           /\ failures[k].continued
           /\ Len(returnData) > failures[k].item
           /\ returnData[failures[k].item + 1].success = FALSE
           /\ returnData[failures[k].item + 1].input = failures[k].item
           /\ Truthy(returnData[failures[k].item + 1].error)
           /\ (ppc = "thrown" => k < Len(failures))
    /\ ppc # "thrown" => Len(returnData) = itemIndex
    /\ ppc = "returned" => Len(returnData) = nItems
    /\ ppc = "thrown" =>
         ~(LastFailure.advancedOptions /\ LastFailure.errorHandling = "continue")

\* C9 witness: the first of two items failed under 'continue', the second
\* was published, and execute returned.
C9_Witness ==
  /\ node = "output"
  /\ ppc = "returned"
  /\ nItems = 2
  /\ Len(failures) = 1
  /\ failures[1].item = 0
  /\ failures[1].continued
  /\ Len(returnData) = 2
  /\ returnData[2].success = TRUE

\* C10: publishEvent is called at most once for an input item, whether the
\* call succeeds or fails.
C10_AtMostOnePublishPerItem ==
  \A i \in 0..MaxItems :
    Cardinality({k \in 1..Len(calls) : calls[k] = i}) <= 1

\* C10 witness: a publish failed, the failure was recorded, and the loop went
\* on to the end.
C10_Witness ==
  /\ ppc = "returned"
  /\ \E k \in 1..Len(failures) : failures[k].origin = "publish" /\ failures[k].continued
  /\ Len(calls) = nItems

\* ---------------------------------------------------------------------
\*  Properties of the envelope built for one item
\* ---------------------------------------------------------------------

\* The three identity parameters of the item processed last are non-empty.
CurIdentityValid ==
  CurIsItem /\ cur.chatId # "" /\ cur.conversationId # "" /\ cur.userId # ""

\* C14: for an item with valid ids, the envelope GravityOutput / GravityUpdate
\* hands to publishEvent carries state 'active' when Advanced Options is off,
\* whatever the state parameter holds, and carries the state parameter's value
\* when Advanced Options is on; the published envelope carries the same state.
C14_DefaultStateActive ==
  /\ (message # <<>> /\ CurIdentityValid) =>
       /\ ~cur.advancedOptions => message[1].state = ChatState_ACTIVE
       /\ cur.advancedOptions => message[1].state = cur.state
  /\ (published # <<>> /\ CurIdentityValid) =>
       /\ ~cur.advancedOptions => published[1].event.state = ChatState_ACTIVE
       /\ cur.advancedOptions => published[1].event.state = cur.state

\* C14 witness: Advanced Options is off, the hidden state parameter holds
\* 'thinking', and the envelope was published.
C14_Witness ==
  /\ CurIdentityValid
  /\ ~cur.advancedOptions
  /\ cur.state = ChatState_THINKING
  /\ published # <<>>
  /\ published[1].event.state = ChatState_ACTIVE

\* C15: the jsonData payload handed to publishEvent is {_dataType, items}; for
\* the array input items is that array, its two elements and nothing around
\* them; for the object input items is the sequence holding that one object;
\* the items do not depend on the node.
C15_JsonDataItemsNormalised ==
  (message # <<>> /\ message[1].type = MessageType_JSON_DATA) =>
    /\ cur.jsonData = "[{\"a\":1},{\"a\":2}]" =>
         message[1].payload.items = <<JObject(<<"a:1">>), JObject(<<"a:2">>)>>
    /\ cur.jsonData = "{\"a\":1}" =>
         message[1].payload.items = <<JObject(<<"a:1">>)>>
    /\ message[1].payload._dataType = (IF node = "output" THEN "data" ELSE "calls")

\* C15 witness: GravityUpdate hands over the two elements of the array input.
C15_Witness ==
  /\ node = "update"
  /\ message # <<>>
  /\ message[1].type = MessageType_JSON_DATA
  /\ cur.jsonData = "[{\"a\":1},{\"a\":2}]"
  /\ Len(message[1].payload.items) = 2

\* C16: the message handed to publishEvent is the message as its encoder
\* returned it: encoding its own base fields, type and payload again gives
\* the same message, no field was added or changed in between.
C16_EnvelopeAsEncoded ==
  message # <<>> =>
    message[1] = CreateMessage(message[1], message[1].type, message[1].payload)

\* ---------------------------------------------------------------------
\*  Properties of concurrent invocations
\* ---------------------------------------------------------------------

\* An envelope of the stream output without its timestamp.
Untimed(chunk) ==
  [model |-> chunk.model, text |-> chunk.text, chunkIndex |-> chunk.chunkIndex,
   state |-> chunk.state, progressMessage |-> chunk.progressMessage]

UntimedAll(chunks) == [k \in 1..Len(chunks) |-> Untimed(chunks[k])]

\* The locals of an invocation that receives the events of `events` alone.
RECURSIVE RunAlone(_, _)
RunAlone(iv, events) ==
  IF events = <<>> THEN iv
  ELSE RunAlone(AfterEvent(iv, events[1], 0), Tail(events))

\* What invocation i would hold had it run alone on its own events.
Alone(i) ==
  LET iv == invocations[i]
      run == RunAlone(NewInvocation(iv.node, iv.opts), iv.stream)
  IN  IF iv.pc = "returned" THEN AfterEnd(run, 0) ELSE run

\* C17: whatever the interleaving of the events of two invocations, each
\* holds the chunk indices, texts and states, the fullResponse and the
\* chunkCount it would hold running alone on its own events.
C17_InterleavingChangesNothing ==
  \A i \in DOMAIN invocations :
    /\ UntimedAll(invocations[i].streamOutput) = UntimedAll(Alone(i).streamOutput)
    /\ invocations[i].fullResponse = Alone(i).fullResponse
    /\ invocations[i].chunkCount = Alone(i).chunkCount

\* C17 witness: the two invocations received different fragments alternately
\* and both returned.
C17_Witness ==
  /\ Len(invocations) = 2
  /\ invocations[1].pc = "returned"
  /\ invocations[2].pc = "returned"
  /\ invocations[1].fullResponse = "Hello"
  /\ invocations[2].fullResponse = "loHel"
  /\ invocations[1].streamOutput[2].timestamp > invocations[2].streamOutput[1].timestamp
  /\ invocations[2].streamOutput[2].timestamp > invocations[1].streamOutput[1].timestamp

\* C20: two runs of the same node with the same options that received the
\* same events hold the same chunk indices, texts and states, the same
\* chunkCount and the same fullResponse; their timestamps may differ.
C20_SameEventsSameResult ==
  \A i \in DOMAIN invocations, j \in DOMAIN invocations :
    (/\ invocations[i].node = invocations[j].node
     /\ invocations[i].opts = invocations[j].opts
     /\ invocations[i].stream = invocations[j].stream
     /\ invocations[i].pc = invocations[j].pc) =>
       /\ UntimedAll(invocations[i].streamOutput) = UntimedAll(invocations[j].streamOutput)
       /\ invocations[i].chunkCount = invocations[j].chunkCount
       /\ invocations[i].fullResponse = invocations[j].fullResponse

\* C20 witness: two returned runs of the same events whose timestamps differ.
C20_Witness ==
  /\ Len(invocations) = 2
  /\ invocations[1].node = invocations[2].node
  /\ invocations[1].opts = invocations[2].opts
  /\ invocations[1].pc = "returned"
  /\ invocations[2].pc = "returned"
  /\ invocations[1].stream = <<"Hel", "lo">>
  /\ invocations[2].stream = <<"Hel", "lo">>
  /\ invocations[1].streamOutput # invocations[2].streamOutput

\* C18: two envelopes published into the same conversation by different
\* adapter instances carry different providerId values.
C18_ProviderIdTellsInstancesApart ==
  \A a \in 1..Len(envelopes), b \in 1..Len(envelopes) :
    (/\ envelopes[a].instance # envelopes[b].instance
     /\ envelopes[a].conversationId = envelopes[b].conversationId) =>
       envelopes[a].providerId # envelopes[b].providerId

\* C19: no two envelopes published into the same conversation carry the same
\* id.
C19_PublishedIdsUnique ==
  \A a \in 1..Len(published), b \in 1..Len(published) :
    (/\ a # b
     /\ published[a].event.conversationId = published[b].event.conversationId) =>
       published[a].event.id # published[b].event.id

\* ---------------------------------------------------------------------
\*  Properties of what the streaming nodes return
\* ---------------------------------------------------------------------

\* A record of the Stream output that is a completion marker: the single
\* space as text, state 'complete'.
IsCompletionMarker(r) ==
  /\ "text" \in DOMAIN r
  /\ r.text = " "
  /\ r.state = ChatState_COMPLETE

\* A record that is an error response.
IsErrorRecord(r) == "error" \in DOMAIN r

\* C21 (as claimed): whatever GravityOpenAI returns on its Stream output ends
\* with a completion marker.
C21_StreamOutputAlwaysTerminated ==
  (node = "openai" /\ spc = "returned") =>
    /\ outputs[1] # <<>>
    /\ IsCompletionMarker(outputs[1][Len(outputs[1])])

\* C21 (amended): the Stream output of a successful GravityOpenAI execution
\* ends with a completion marker and holds no other; the Stream output of a
\* failed execution is one error record and holds no completion marker.
C21_SuccessfulStreamTerminated ==
  node = "openai" =>
    /\ ReturnedOk =>
         /\ outputs[1] # <<>>
         /\ IsCompletionMarker(outputs[1][Len(outputs[1])])
         /\ \A k \in 1..(Len(outputs[1]) - 1) : ~IsCompletionMarker(outputs[1][k])
    /\ ReturnedError =>
         /\ Len(outputs[1]) = 1
         /\ IsErrorRecord(outputs[1][1])
         /\ ~IsCompletionMarker(outputs[1][1])

\* C21 witness: GravityOpenAI returned one chunk followed by the marker.
C21_Witness ==
  /\ node = "openai"
  /\ ReturnedOk
  /\ Len(outputs[1]) = 2
  /\ IsCompletionMarker(outputs[1][2])

\* C24: the MCP output record of GravityClaude carries providerId 'mcp'
\* exactly when the node's useMcpProvider parameter is on.
C24_McpProviderIdFollowsOption ==
  (node = "claude" /\ ReturnedOk) =>
    ((outputs[3][1].providerId = "mcp") <=> useMcpProvider)

\* The texts of the entries of a stream output, in order.
Texts(chunks) == [k \in 1..Len(chunks) |-> chunks[k].text]

\* C25: in a successful execution the Result output's chunkCount is the
\* length of the Stream output minus one, its response is the texts of the
\* non-final entries joined in order, its updatedMessages is the input
\* messages followed by one assistant message holding that response, and the
\* input messages are still the list processUserMessage returned.
C25_ResultMatchesStream ==
  ReturnedOk =>
    LET so == outputs[1]
        res == outputs[2][1]
    IN  /\ Len(outputs[2]) = 1
        /\ res.chunkCount = Len(so) - 1
        /\ res.response = Joined(Texts(SubSeq(so, 1, Len(so) - 1)))
        /\ Len(res.updatedMessages) = Len(messages) + 1
        /\ SubSeq(res.updatedMessages, 1, Len(messages)) = messages
        /\ res.updatedMessages[Len(messages) + 1].role = "assistant"
        /\ res.updatedMessages[Len(messages) + 1] = ChatMessage(node, "assistant", res.response)
        /\ res.messages = messages
        /\ messages \in InputMessages(node)

\* C25 witness: GravityClaude returned two chunks for the input message "Hi".
C25_Witness ==
  /\ node = "claude"
  /\ ReturnedOk
  /\ Len(outputs[1]) = 3
  /\ messages = <<ChatMessage("claude", "user", "Hi")>>
  /\ Len(outputs[2][1].updatedMessages) = 2

\* C29: a failure at any point of GravityClaude / GravityOpenAI.execute makes
\* it return, at once, exactly one error record {error: true, message} on
\* every output and nothing else; what a successful execution returns holds
\* no error record.
C29_FailuresReturnedNotThrown ==
  /\ caught # NoError => spc = "returned"
  /\ ReturnedError =>
       /\ Len(outputs) = (IF node = "claude" THEN 3 ELSE 2)
       /\ \A o \in 1..Len(outputs) :
            /\ Len(outputs[o]) = 1
            /\ IsErrorRecord(outputs[o][1])
            /\ outputs[o][1].error = TRUE
            /\ "message" \in DOMAIN outputs[o][1]
            /\ "chunkIndex" \notin DOMAIN outputs[o][1]
  /\ ReturnedOk =>
       \A o \in 1..Len(outputs) : \A k \in 1..Len(outputs[o]) : ~IsErrorRecord(outputs[o][k])

\* C29 witness: the failure came before the request was prepared.
C29_Witness ==
  /\ ReturnedError
  /\ messages = <<>>
  /\ outputs[1][1].error = TRUE

\* ---------------------------------------------------------------------
\*  Properties of an execution over several items
\* ---------------------------------------------------------------------

\* The failure reached a catch block that is set to throw: GravityOutput
\* without (Advanced Options and Error Handling = 'continue'), GravityUpdate
\* without the engine's continue-on-fail.
ThrowConfigured(f) ==
  IF node = "output"
    THEN ~(f.advancedOptions /\ f.errorHandling = "continue")
    ELSE ~continueOnFail

\* The items whose publishEvent call rejected.
RejectedItems ==
  {failures[k].item : k \in {j \in 1..Len(failures) : failures[j].origin = "publish"}}

\* publishEvent accepted nothing, or one more message after those it had.
PublishedGrows ==
  \/ published' = published
  \/ /\ Len(published') = Len(published) + 1
     /\ SubSeq(published', 1, Len(published)) = published

\* What holds once item k failed in throw mode: execute has thrown; the
\* messages published are those of the items before k whose record says
\* success, one each and of a type the node has a case for; publishEvent was
\* called for no item after k.
AbortedCleanly ==
  \A k \in 1..Len(failures) :
    ThrowConfigured(failures[k]) =>
      /\ ppc = "thrown"
      /\ \A c \in CalledItems : c <= failures[k].item
      /\ PublishedItems = {i \in 0..(failures[k].item - 1) : returnData[i + 1].success}
      /\ Len(published) = Cardinality(PublishedItems)
      /\ \A q \in 1..Len(published) : published[q].event.type \in SupportedTypes(node)

\* C22: in throw mode, when item k fails, what was published for the items
\* before k stays published (the published messages are only ever added to),
\* nothing else is published in compensation, and nothing is published for
\* an item after k.
C22_NoCompensationOnAbort == []AbortedCleanly /\ [][PublishedGrows]_vars

\* C22 witness: the second item failed in throw mode after the first had
\* been published.
C22_Witness ==
  /\ ppc = "thrown"
  /\ failures # <<>>
  /\ LastFailure.item = 1
  /\ PublishedItems = {0}

\* C26: a record with success = true stands at the position of an item whose
\* message publishEvent accepted; while the publish of an item is pending
\* the item has no record; there is one record per item dealt with, so no
\* item has two; the record of a failure that was continued says success =
\* false and its item was not published.
C26_SuccessFollowsPublication ==
  /\ \A k \in 1..Len(returnData) : returnData[k].success => (k - 1) \in PublishedItems
  /\ Len(returnData) = itemIndex
  /\ ppc = "publishing" => itemIndex \notin PublishedItems
  /\ node = "output" => \A k \in 1..Len(returnData) : returnData[k].input = k - 1
  /\ \A k \in 1..Len(failures) :
       failures[k].continued =>
         /\ returnData[failures[k].item + 1].success = FALSE
         /\ failures[k].item \notin PublishedItems

\* C26 witness: of two items the first was published and the second failed
\* with the failure recorded.
C26_Witness ==
  /\ Len(returnData) = 2
  /\ returnData[1].success = TRUE
  /\ returnData[2].success = FALSE
  /\ PublishedItems = {0}

\* C27: publishEvent is called for the items in input order; a call is made
\* only when every earlier call has resolved or rejected; the accepted
\* messages are in input order; the records of GravityOutput stand in the
\* order of their items.
C27_PublishedInItemOrder ==
  /\ \A a \in 1..Len(calls), b \in 1..Len(calls) : a < b => calls[a] < calls[b]
  /\ \A a \in 1..Len(published), b \in 1..Len(published) :
       a < b => published[a].item < published[b].item
  /\ \A a \in 1..Len(calls) :
       (a < Len(calls) \/ ppc # "publishing") => calls[a] \in PublishedItems \cup RejectedItems
  /\ ppc = "publishing" => (calls # <<>> /\ calls[Len(calls)] = itemIndex)
  /\ node = "output" =>
       \A a \in 1..Len(returnData), b \in 1..Len(returnData) :
         a < b => returnData[a].input < returnData[b].input

\* C27 witness: the publish of the second item is pending after the first
\* resolved.
C27_Witness ==
  /\ ppc = "publishing"
  /\ calls = <<0, 1>>
  /\ PublishedItems = {0}

\* C28: GravityUpdate with continue-on-fail on: every failure of an item is
\* recorded as one record {success: false, error} at the item's position,
\* the loop goes on and execute returns one record per item; with it off:
\* the first failure of an item makes execute throw a NodeOperationError
\* carrying that item's index.
C28_UpdateContinueOnFail ==
  node = "update" =>
    /\ continueOnFail =>
         /\ \A k \in 1..Len(failures) :
              /\ failures[k].continued
              /\ returnData[failures[k].item + 1].success = FALSE
              /\ returnData[failures[k].item + 1].error = failures[k].surfaced.message
         /\ ppc = "thrown" => failures = <<>>
         /\ ppc = "returned" => Len(returnData) = nItems
    /\ (~continueOnFail /\ failures # <<>>) =>
         /\ Len(failures) = 1
         /\ ppc = "thrown"
         /\ thrown.name = "NodeOperationError"
         /\ thrown.itemIndex = failures[1].item
         /\ failures[1].item = itemIndex
         /\ Len(returnData) = itemIndex

\* C28 witness: with continue-on-fail off the publish of the second item
\* was rejected and execute threw with index 1.
C28_Witness ==
  /\ node = "update"
  /\ ~continueOnFail
  /\ failures # <<>>
  /\ failures[1].origin = "publish"
  /\ thrown.itemIndex = 1

\* ---------------------------------------------------------------------
\*  Properties of GravityInput.trigger
\* ---------------------------------------------------------------------

\* The emit calls made for the k-th delivered event.
CallsFor(k) == SelectSeq(emitCalls, LAMBDA c : c.event = k)

\* The event carries a payload.
HasPayload(event) ==
  "payload" \in DOMAIN event /\ event.payload.type \notin {"undefined", "null"}

\* C23 as stated: every delivered event gives exactly one emitted record,
\* holding the event's payload when the event has one and the whole event
\* otherwise.
C23_OneRecordPerEvent ==
  \A k \in 1..Len(delivered) :
    LET taken == SelectSeq(CallsFor(k), LAMBDA c : c.accepted)
        event == delivered[k]
    IN /\ Len(taken) = 1
       /\ taken[1].data =
            <<<<[json |-> IF HasPayload(event) THEN event.payload ELSE event]>>>>

\* C23 amended: for every delivered event the callback calls emit with one
\* record holding the event's payload when that payload is truthy and the
\* whole event otherwise; when that call is accepted it is the only one;
\* when it throws, the callback calls emit once more with one record
\* {error, originalMessage}; the emit calls are in the order of delivery.
C23_OneEmitPerEventElseErrorRecord ==
  /\ \A k \in 1..Len(delivered) :
       LET cs == CallsFor(k)
           event == delivered[k]
           expected == IF JsTruthy(EventPayload(event)) THEN event.payload ELSE event
       IN /\ Len(cs) \in {1, 2}
          /\ cs[1].data = <<<<[json |-> expected]>>>>
          /\ cs[1].accepted => Len(cs) = 1
          /\ ~cs[1].accepted =>
               /\ Len(cs) = 2
               /\ cs[2].data =
                    <<<<[json |-> [error |-> "emit failed", originalMessage |-> expected]]>>>>
  /\ \A a \in 1..Len(emitCalls), b \in 1..Len(emitCalls) :
       a < b => emitCalls[a].event <= emitCalls[b].event
  /\ \A a \in 1..Len(emitCalls) : emitCalls[a].event \in 1..Len(delivered)

\* C23 witness: an event with an object payload was emitted as its payload,
\* then an event without payload was emitted whole.
C23_Witness ==
  /\ Len(delivered) = 2
  /\ Len(emitCalls) = 2
  /\ emitCalls[1].accepted /\ emitCalls[2].accepted
  /\ JsTruthy(EventPayload(delivered[1]))
  /\ "payload" \notin DOMAIN delivered[2]
  /\ delivered[1].id # delivered[2].id

\* Emit calls are added only by a run of the subscription callback.
EmitsOnlyInCallback ==
  emitCalls' # emitCalls =>
    /\ Len(delivered') = Len(delivered) + 1
    /\ subscription.state = "active"

\* The state part of C30.
LifecycleKept ==
  /\ tpc = "returned" =>
       /\ subscription.channel = EVENT_CHANNEL_PREFIX \o channel
       /\ subscription.state \in {"active", "removed"}
  /\ tpc = "thrown" =>
       /\ triggerError # NoError
       /\ emitCalls = <<>>
       /\ delivered = <<>>
       /\ subscription.state \in {"none", "rejected"}
       /\ closeCalls = 0
  /\ tpc \in {"credentials", "subscribing"} => (emitCalls = <<>> /\ closeCalls = 0)
  /\ unsubscribeCalls = closeCalls

\* C30: trigger returns the close function only when the subscription to the
\* prefixed channel is established; when getCredentials or subscribe fails
\* trigger throws and nothing is ever emitted; every call of the close
\* function calls unsubscribe; emit is called only from the subscription
\* callback.
C30_SubscriptionLifecycle == []LifecycleKept /\ [][EmitsOnlyInCallback]_vars

\* C30 witness: the trigger returned, an event was emitted and the close
\* function was called twice.
C30_Witness ==
  /\ tpc = "returned"
  /\ emitCalls # <<>>
  /\ closeCalls = 2
  /\ unsubscribeCalls = 2

====
